---- MODULE Spec2Model ----
(***************************************************************************)
(* Singular Weather Analytics: the refresh pipeline (update_weather_data), *)
(* the module-level snapshot cache of app.py and the HTTP handlers that    *)
(* read it, for every launcher of the repository (one uvicorn process, or  *)
(* gunicorn worker processes sharing one working directory).               *)
(*                                                                         *)
(* Scheduling.  update_weather_data and every handler are `async def`      *)
(* bodies without a single await inside, so on one event loop each of them *)
(* runs from its first to its last line before any other coroutine of the  *)
(* same process runs.  The refresh is nevertheless split into steps here,  *)
(* because other PROCESSES (gunicorn workers) run in between and share the *)
(* CSV file and the chart files; LoopFree(w) is what keeps the coroutines  *)
(* of one process apart.                                                   *)
(***************************************************************************)
EXTENDS Integers, Sequences, FiniteSets, TLC

\* ---- bounds of the model ------------------------------------------------
NumCities == 2      \* cities of the registry kept (config.CITIES has 10)
MaxRefreshes == 3   \* refreshes started in one behaviour
MaxPending == 1     \* background tasks one process holds not yet started
MaxRows == 3        \* rows of a frame handed to the pure functions
MaxTemp == 400      \* temperatures of the conversion sweep, tenths of a degree
MaxWind == 500      \* wind speeds of the conversion sweep, tenths of a m/s

Cities == 1..NumCities

\* The server processes.  main.py, run_simple.py and app.py start one
\* (uvicorn); start_server.py starts gunicorn with --workers 4, of which the
\* model keeps two: the processes share nothing but the working directory.
Workers == {"w1", "w2"}

\* The temperature the upstream API reports for city c at time now, when it
\* answers: some fixed weather, with ties and with changes of order in time.
UpstreamTemperature(c, now) == ((c * now) % 3) * 10

\* chart_paths keys, in the order generate_all_visualizations renders them
ChartNames == <<"temperature_comparison", "humidity_wind_analysis",
                "comprehensive_dashboard">>
ChartSet == {ChartNames[k] : k \in 1..Len(ChartNames)}

\* Python's None; every nullable value of the model is a record
None == [none |-> TRUE]
NoOut == [kind |-> "none"]

VARIABLES
    procs,         \* the server processes of this launch
    pc,            \* pc[w]: where process w's event loop is
    idx,           \* idx[w]: position of scrape_all_cities' loop over cities
    weather_data,  \* weather_data[w]: list built by scrape_all_cities
    weather_df,    \* weather_df[w]: local of update_weather_data
    insights,      \* insights[w]: local of update_weather_data
    chart_paths,   \* chart_paths[w]: local of update_weather_data
    stamp,         \* stamp[w]: wall-clock stamp of the refresh running in w
    pending,       \* pending[w]: background tasks added and not yet started
    cache,         \* cache[w]: the four module globals of process w
    csvFile,       \* content of config.OUTPUT_CSV_FILE on the shared disk
    chartFiles,    \* content of each chart PNG on the shared disk
    clock,         \* wall clock: one tick per refresh started
    out            \* what the step just taken returned or answered

vars == <<procs, pc, idx, weather_data, weather_df, insights, chart_paths,
          stamp, pending, cache, csvFile, chartFiles, clock, out>>

\* ---- pure functions -------------------------------------------------------

\* A number that may be missing (None in the dict fetch_weather_data
\* returns, NaN in a float column of the frame) is None or Val(x).
\* Temperatures and wind speeds are counted in tenths (the resolution of the
\* API), humidity in percent.
Val(x) == [val |-> x]

\* how a call ends
Return(v) == [raised |-> FALSE, value |-> v]
Raise(e) == [raised |-> TRUE, exception |-> e]

\* (variant: the decimals beyond the first are cut off)
round_Truncates(num, den) == num \div den

\* Series.round(1) of the quotient num/den of tenths: numpy multiplies by
\* ten, takes rint (nearest, ties to even) and divides.  For operands in
\* tenths, the exact ties of the two conversions are rounded to even by it
\* (50.0 m/s * 2.237 = 111.85 gives 111.8).
round(num, den) ==
    LET q == num \div den
        r == num % den
    IN IF 2 * r > den THEN q + 1
       ELSE IF 2 * r < den THEN q
       ELSE IF q % 2 = 0 THEN q ELSE q + 1

\* the reply of the upstream API for city c at time now, when it answers:
\* some fixed weather, with ties and with changes of order in time
UpstreamWind(c, now) == <<20, 30, 80>>[1 + ((c + 2 * now) % 3)]

\* the hourly relative_humidity_2m series: missing from some replies, and
\* nothing keeps the API within 0..100 (110 is such a reading)
UpstreamHumidity(c, now) ==
    LET r == (c + now) % 4
    IN IF r = 0 THEN <<>> ELSE <<Val(35 * r + 5), Val(50)>>

UpstreamReply(c, now) ==
    [status |-> "ok",
     temperature |-> Val(UpstreamTemperature(c, now)),
     windspeed |-> Val(UpstreamWind(c, now)),
     relative_humidity_2m |-> UpstreamHumidity(c, now)]

\* the ways a request of fetch_weather_data goes wrong: no answer within
\* timeout=10, no connection, a 4xx/5xx status, a body that is not JSON, a
\* JSON body whose current_weather or hourly is not an object
Failures == {"timeout", "connection_error", "http_error", "not_json", "bad_shape"}

\* what session.get may bring for city c at time now
Replies(c, now) == {UpstreamReply(c, now)} \cup {[status |-> f] : f \in Failures}

\* lines 56-73 of fetch_weather_data: the dict built from a reply that parsed
WeatherDict(city_name, data) ==
    [city |-> city_name,
     temperature_c |-> data.temperature,
     humidity |-> IF Len(data.relative_humidity_2m) > 0
                  THEN data.relative_humidity_2m[1] ELSE None,
     wind_speed_ms |-> data.windspeed]

\* (variant: without the `except Exception` clause, the AttributeError of
\* None.get on a body of the wrong shape leaves the function)
fetch_weather_data_Uncaught(city_name, data) ==
    IF data.status = "ok" THEN Return(WeatherDict(city_name, data))
    ELSE IF data.status = "bad_shape" THEN Raise("AttributeError")
    ELSE Return(None)

\* fetch_weather_data: session.get and raise_for_status raise a
\* RequestException, response.json() a JSONDecodeError, the .get of a
\* value that is no dict an AttributeError, all inside the try block whose
\* two except clauses log and return None
fetch_weather_data(city_name, data) ==
    IF data.status = "ok" THEN Return(WeatherDict(city_name, data))
    ELSE Return(None)

\* every order of the rows of a set
RECURSIVE Orders(_)
Orders(S) ==
    IF S = {} THEN {<<>>}
    ELSE UNION {{<<x>> \o p : p \in Orders(S \ {x})} : x \in S}

IsSortedDesc(s) ==
    \A i \in 1..(Len(s) - 1) :
        s[i].temperature_c.val >= s[i + 1].temperature_c.val

\* the rows of a frame whose column f holds a number
Present(rows, f) == {i \in 1..Len(rows) : rows[i][f] # None}

\* lines 137-154 of process_weather_data for one row: the two conversions,
\* taken from the unrounded reading, and the four roundings; NaN stays NaN
Converted(r) ==
    LET c == r.temperature_c
        ms == r.wind_speed_ms
    IN [city |-> r.city,
        temperature_c |-> IF c = None THEN None ELSE Val(round(c.val, 1)),
        temperature_f |-> IF c = None THEN None
                          ELSE Val(round(9 * c.val + 1600, 5)),
        humidity |-> r.humidity,
        wind_speed_ms |-> IF ms = None THEN None ELSE Val(round(ms.val, 1)),
        wind_speed_mph |-> IF ms = None THEN None
                           ELSE Val(round(ms.val * 2237, 1000))]

\* process_weather_data on the frame pd.DataFrame makes of the list of
\* dicts.  A column of None only is an object column, and None * 9 raises;
\* a column with some number is a float column, None being NaN in it, and
\* no row is removed.  df.sort_values('temperature_c', ascending=False) has
\* the default kind, 'quicksort', which promises no order among rows of
\* equal temperature: every descending order of the rows is a possible
\* result, the NaN rows coming last in their input order.
process_weather_data(rows) ==
    IF rows = <<>> THEN {Return(rows)}
    ELSE IF Present(rows, "temperature_c") = {}
            \/ Present(rows, "wind_speed_ms") = {}
    THEN {Raise("TypeError")}
    ELSE LET df == [i \in 1..Len(rows) |-> Converted(rows[i])]
             nan == SelectSeq(df, LAMBDA r : r.temperature_c = None)
             num == {df[i] : i \in Present(df, "temperature_c")}
         IN {Return(s \o nan) : s \in {o \in Orders(num) : IsSortedDesc(o)}}

\* Series.idxmax / idxmin: the label of the first row that holds the
\* largest / smallest number of column f, NaN skipped
IdxMax(rows, f) ==
    CHOOSE i \in Present(rows, f) :
        /\ \A j \in Present(rows, f) : rows[j][f].val <= rows[i][f].val
        /\ \A j \in Present(rows, f) : j < i => rows[j][f].val < rows[i][f].val

\* (variant: the last row that holds the smallest number)
IdxMin_Last(rows, f) ==
    CHOOSE i \in Present(rows, f) :
        /\ \A j \in Present(rows, f) : rows[j][f].val >= rows[i][f].val
        /\ \A j \in Present(rows, f) : j > i => rows[j][f].val > rows[i][f].val

IdxMin(rows, f) ==
    CHOOSE i \in Present(rows, f) :
        /\ \A j \in Present(rows, f) : rows[j][f].val >= rows[i][f].val
        /\ \A j \in Present(rows, f) : j < i => rows[j][f].val > rows[i][f].val

RECURSIVE Total(_, _, _)
Total(rows, f, P) ==
    IF P = {} THEN 0
    ELSE LET i == CHOOSE i \in P : TRUE
         IN rows[i][f].val + Total(rows, f, P \ {i})

\* (variant: a missing value counts as a zero)
mean_OverAllRows(rows, f) ==
    [num |-> Total(rows, f, Present(rows, f)), den |-> Len(rows)]

\* Series.mean(): the sum of the numbers of column f over their count, NaN
\* skipped; kept as a fraction
mean(rows, f) ==
    [num |-> Total(rows, f, Present(rows, f)),
     den |-> Cardinality(Present(rows, f))]

\* mean().round(1), in tenths, of a mean counted in 1/scale tenths: the
\* nearest tenth.  The mean is a binary float which, where the exact mean
\* lies halfway between two tenths, falls on either side of the half: the
\* result is then one or the other tenth.
mean_round(m, scale) ==
    LET num == m.num * scale
        q == num \div m.den
        r == num % m.den
    IN IF 2 * r < m.den THEN {q}
       ELSE IF 2 * r > m.den THEN {q + 1}
       ELSE {q, q + 1}

\* the dict get_weather_insights returns for an empty frame
EmptyInsights == [empty |-> TRUE]

\* lines 176-197 of get_weather_insights, at wall-clock time now.  idxmax
\* on a column without a number raises (TypeError on the object column a
\* field missing from every dict makes).
Summary(rows, now) ==
    IF \E f \in {"temperature_c", "humidity", "wind_speed_mph"} :
           Present(rows, f) = {}
    THEN {Raise("TypeError")}
    ELSE {Return([empty |-> FALSE,
                  total_cities |-> Len(rows),
                  data_collection_time |-> now,
                  hottest_city |-> rows[IdxMax(rows, "temperature_c")].city,
                  coldest_city |-> rows[IdxMin(rows, "temperature_c")].city,
                  avg_temperature_c |-> a[1],
                  avg_temperature_f |-> a[2],
                  most_humid_city |-> rows[IdxMax(rows, "humidity")].city,
                  least_humid_city |-> rows[IdxMin(rows, "humidity")].city,
                  avg_humidity |-> a[3],
                  windiest_city |-> rows[IdxMax(rows, "wind_speed_mph")].city,
                  calmest_city |-> rows[IdxMin(rows, "wind_speed_mph")].city,
                  avg_wind_speed_mph |-> a[4]]) :
          a \in mean_round(mean(rows, "temperature_c"), 1)
                \X mean_round(mean(rows, "temperature_f"), 1)
                \X mean_round(mean(rows, "humidity"), 10)
                \X mean_round(mean(rows, "wind_speed_mph"), 1)}

\* (variant: the frame is summarised without being tested for emptiness)
get_weather_insights_Unguarded(rows, now) == Summary(rows, now)

\* get_weather_insights
get_weather_insights(rows, now) ==
    IF rows = <<>> THEN {Return(EmptyInsights)} ELSE Summary(rows, now)

EmptyCache ==
    [cached_weather_data |-> None, cached_insights |-> None,
     cached_charts |-> None, last_update_time |-> None]

\* ---- initial state --------------------------------------------------------
\* main.py, run_simple.py and app.py: one uvicorn process
Init ==
    /\ procs = {"w1"}
    /\ pc = [w \in Workers |-> "boot"]
    /\ idx = [w \in Workers |-> 0]
    /\ weather_data = [w \in Workers |-> <<>>]
    /\ weather_df = [w \in Workers |-> None]
    /\ insights = [w \in Workers |-> None]
    /\ chart_paths = [w \in Workers |-> None]
    /\ stamp = [w \in Workers |-> 0]
    /\ pending = [w \in Workers |-> 0]
    /\ cache = [w \in Workers |-> EmptyCache]
    /\ csvFile = None
    /\ chartFiles = [n \in ChartSet |-> None]
    /\ clock = 0
    /\ out = NoOut


\* ---- the event loop of one process ----------------------------------------

\* (variant: update_weather_data handed to a worker thread, as Starlette
\* does with a plain `def` task, so that the loop keeps serving meanwhile)
LoopFree_Threaded(w) == pc[w] # "boot"

\* No coroutine of process w is running: the loop can start the next one.
LoopFree(w) == pc[w] = "idle"

\* A refresh is executing in process w (between lines 59 and 88 of app.py).
InFlight(w) == pc[w] \notin {"boot", "idle"}

\* How update_weather_data ends: the value it returns (it has no return
\* statement with a value, and its except clause swallows the exception),
\* its last log line, and what the refresh was: its stamp, the cities
\* fetched, the charts rendered, the exception caught if any.
Returned(w, log, error) ==
    [kind |-> "returned", w |-> w, value |-> None, log |-> log,
     error |-> error, refresh |-> stamp[w],
     fetched |-> {weather_data[w][i].city : i \in 1..Len(weather_data[w])},
     rendered |-> chart_paths[w]]

\* (variant: update_weather_data without its except clause: the exception
\* of a step reaches the caller)
Leave_Propagates(w, log, error) ==
    /\ pc' = [pc EXCEPT ![w] = "idle"]
    /\ idx' = [idx EXCEPT ![w] = 0]
    /\ weather_data' = [weather_data EXCEPT ![w] = <<>>]
    /\ weather_df' = [weather_df EXCEPT ![w] = None]
    /\ insights' = [insights EXCEPT ![w] = None]
    /\ chart_paths' = [chart_paths EXCEPT ![w] = None]
    /\ stamp' = [stamp EXCEPT ![w] = 0]
    /\ out' = IF error = None THEN Returned(w, log, error)
              ELSE [kind |-> "raised", w |-> w, error |-> error]

\* update_weather_data is left: its locals die, the loop is free again
Leave(w, log, error) ==
    /\ pc' = [pc EXCEPT ![w] = "idle"]
    /\ idx' = [idx EXCEPT ![w] = 0]
    /\ weather_data' = [weather_data EXCEPT ![w] = <<>>]
    /\ weather_df' = [weather_df EXCEPT ![w] = None]
    /\ insights' = [insights EXCEPT ![w] = None]
    /\ chart_paths' = [chart_paths EXCEPT ![w] = None]
    /\ stamp' = [stamp EXCEPT ![w] = 0]
    /\ out' = Returned(w, log, error)

\* first lines of update_weather_data and of scrape_all_cities
Enter(w) ==
    /\ clock < MaxRefreshes
    /\ pc' = [pc EXCEPT ![w] = "fetch"]
    /\ idx' = [idx EXCEPT ![w] = 1]
    /\ weather_data' = [weather_data EXCEPT ![w] = <<>>]
    /\ clock' = clock + 1
    /\ stamp' = [stamp EXCEPT ![w] = clock + 1]
    /\ out' = NoOut
    /\ UNCHANGED <<procs, weather_df, insights, chart_paths, cache, csvFile,
                   chartFiles>>

\* (variant: startup_event hands the refresh to the loop as a task,
\* `asyncio.create_task(update_weather_data())`, and returns)
Startup_NotAwaited(w) ==
    /\ w \in procs
    /\ pc[w] = "boot"
    /\ pc' = [pc EXCEPT ![w] = "idle"]
    /\ pending' = [pending EXCEPT ![w] = @ + 1]
    /\ out' = NoOut
    /\ UNCHANGED <<procs, idx, weather_data, weather_df, insights,
                   chart_paths, stamp, cache, csvFile, chartFiles, clock>>

\* startup_event: the refresh awaited before the process serves anything
Startup(w) ==
    /\ w \in procs
    /\ pc[w] = "boot"
    /\ Enter(w)
    /\ UNCHANGED pending

\* Starlette runs one added background task: await update_weather_data()
RunBackgroundTask(w) ==
    /\ w \in procs
    /\ LoopFree(w)
    /\ pending[w] > 0
    /\ pending' = [pending EXCEPT ![w] = @ - 1]
    /\ Enter(w)

\* (variant: a city that answered is asked a second time, and both dicts
\* are kept)
FetchCity_Refetches(w) ==
    /\ pc[w] = "fetch"
    /\ idx[w] <= NumCities
    /\ LET weather == WeatherDict(idx[w], UpstreamReply(idx[w], stamp[w]))
           seen == \E i \in 1..Len(weather_data[w]) :
                       weather_data[w][i].city = idx[w]
       IN \/ /\ UNCHANGED weather_data
             /\ idx' = [idx EXCEPT ![w] = @ + 1]
          \/ /\ weather_data' = [weather_data EXCEPT ![w] = Append(@, weather)]
             /\ idx' = [idx EXCEPT ![w] = IF seen THEN @ + 1 ELSE @]
    /\ out' = NoOut
    /\ UNCHANGED <<procs, pc, weather_df, insights, chart_paths, stamp,
                   pending, cache, csvFile, chartFiles, clock>>

\* (variant: a city whose fetch failed is asked again until it answers)
FetchCity_Retries(w) ==
    /\ pc[w] = "fetch"
    /\ idx[w] <= NumCities
    /\ \E data \in Replies(idx[w], stamp[w]) :
         LET weather == fetch_weather_data(idx[w], data)
         IN /\ weather_data' = [weather_data EXCEPT ![w] =
                   IF weather.value = None THEN @
                   ELSE Append(@, weather.value)]
            /\ idx' = [idx EXCEPT ![w] =
                   IF weather.value = None THEN @ ELSE @ + 1]
            /\ out' = [kind |-> "fetched", w |-> w, city |-> idx[w],
                       status |-> data.status, weather |-> weather]
    /\ UNCHANGED <<procs, pc, weather_df, insights, chart_paths, stamp,
                   pending, cache, csvFile, chartFiles, clock>>

\* one iteration of the loop of scrape_all_cities: fetch_weather_data
\* returns None (the city is dropped) or a dict (it is appended), and the
\* loop goes on to the next city; an exception leaving fetch_weather_data
\* would leave scrape_all_cities too and end in the except clause of
\* update_weather_data
FetchCity(w) ==
    /\ pc[w] = "fetch"
    /\ idx[w] <= NumCities
    /\ \E data \in Replies(idx[w], stamp[w]) :
         LET weather == fetch_weather_data(idx[w], data)
         IN IF weather.raised
            THEN /\ Leave(w, "Error updating weather data",
                          [raised_by |-> "fetch_weather_data"])
                 /\ UNCHANGED <<procs, pending, cache, csvFile, chartFiles,
                                clock>>
            ELSE /\ weather_data' = [weather_data EXCEPT ![w] =
                        IF weather.value = None THEN @
                        ELSE Append(@, weather.value)]
                 /\ idx' = [idx EXCEPT ![w] = @ + 1]
                 /\ out' = [kind |-> "fetched", w |-> w, city |-> idx[w],
                            status |-> data.status, weather |-> weather]
                 /\ UNCHANGED <<procs, pc, weather_df, insights, chart_paths,
                                stamp, pending, cache, csvFile, chartFiles,
                                clock>>

\* (variant: the empty frame is published instead of being checked for)
ReturnNoData_Publishes(w) ==
    /\ pc[w] = "fetch"
    /\ idx[w] > NumCities
    /\ weather_data[w] = <<>>
    /\ cache' = [cache EXCEPT ![w].cached_weather_data =
                    [rows |-> <<>>, timestamp |-> stamp[w]]]
    /\ Leave(w, "No weather data received", None)
    /\ UNCHANGED <<procs, pending, csvFile, chartFiles, clock>>

\* no city answered: scrape_all_cities returns an empty frame and
\* update_weather_data logs and returns
ReturnNoData(w) ==
    /\ pc[w] = "fetch"
    /\ idx[w] > NumCities
    /\ weather_data[w] = <<>>
    /\ Leave(w, "No weather data received", None)
    /\ UNCHANGED <<procs, pending, cache, csvFile, chartFiles, clock>>

\* some city answered: process_weather_data, then get_weather_insights
Analyse(w) ==
    /\ pc[w] = "fetch"
    /\ idx[w] > NumCities
    /\ weather_data[w] # <<>>
    /\ \E df \in process_weather_data(weather_data[w]) :
         /\ ~df.raised
         /\ \E summary \in get_weather_insights(df.value, stamp[w]) :
              /\ ~summary.raised
              /\ weather_df' = [weather_df EXCEPT ![w] =
                                   [rows |-> df.value, timestamp |-> stamp[w]]]
              /\ insights' = [insights EXCEPT ![w] = summary.value]
    /\ pc' = [pc EXCEPT ![w] = "charts"]
    /\ out' = NoOut
    /\ UNCHANGED <<procs, idx, weather_data, chart_paths, stamp, pending,
                   cache, csvFile, chartFiles, clock>>

\* some city answered and process_weather_data or get_weather_insights
\* raises: the except clause of update_weather_data logs, and the function
\* returns
AnalyseFails(w) ==
    /\ pc[w] = "fetch"
    /\ idx[w] > NumCities
    /\ weather_data[w] # <<>>
    /\ \E df \in process_weather_data(weather_data[w]) :
         LET raised_by ==
                 IF df.raised THEN "process_weather_data"
                 ELSE IF \E summary \in get_weather_insights(df.value, stamp[w]) :
                             summary.raised
                 THEN "get_weather_insights"
                 ELSE "nothing"
         IN /\ raised_by # "nothing"
            /\ Leave(w, "Error updating weather data", [raised_by |-> raised_by])
    /\ UNCHANGED <<procs, pending, cache, csvFile, chartFiles, clock>>

\* generate_all_visualizations: the charts are rendered in order, each
\* overwriting its PNG; the first failure is caught and ends the rendering,
\* k being the number of charts rendered before it.  The dict returned is a
\* new object for every refresh: `refresh` is its identity.
GenerateCharts(w) ==
    /\ pc[w] = "charts"
    /\ \E k \in 0..Len(ChartNames) :
         LET done == {ChartNames[j] : j \in 1..k} IN
         /\ chartFiles' = [n \in ChartSet |->
                             IF n \in done THEN [png |-> stamp[w]]
                             ELSE chartFiles[n]]
         /\ chart_paths' = [chart_paths EXCEPT ![w] =
                                [names |-> done, refresh |-> stamp[w]]]
    /\ pc' = [pc EXCEPT ![w] = "export"]
    /\ out' = NoOut
    /\ UNCHANGED <<procs, idx, weather_data, weather_df, insights, stamp,
                   pending, cache, csvFile, clock>>

\* weather_df.to_csv succeeds
ExportCsv(w) ==
    /\ pc[w] = "export"
    /\ csvFile' = weather_df[w]
    /\ pc' = [pc EXCEPT ![w] = "set_data"]
    /\ out' = NoOut
    /\ UNCHANGED <<procs, idx, weather_data, weather_df, insights,
                   chart_paths, stamp, pending, cache, chartFiles, clock>>

\* weather_df.to_csv raises, either before it has opened the file or after
\* it has truncated it (the rows are then not all written): the except
\* clause of update_weather_data logs, and the function returns
ExportCsvFails(w) ==
    /\ pc[w] = "export"
    /\ \/ UNCHANGED csvFile
       \/ csvFile' = [rows |-> <<>>, timestamp |-> stamp[w]]
    /\ Leave(w, "Error updating weather data", [raised_by |-> "to_csv"])
    /\ UNCHANGED <<procs, pending, cache, chartFiles, clock>>

\* (variant: the new rows are merged into the cached ones, a city that
\* is not in the new frame keeping its old row)
SetData_Merges(w) ==
    /\ pc[w] = "set_data"
    /\ LET old == cache[w].cached_weather_data
           new == weather_df[w]
           newCities == {new.rows[i].city : i \in 1..Len(new.rows)}
           kept == IF old = None THEN <<>>
                   ELSE SelectSeq(old.rows, LAMBDA r : r.city \notin newCities)
       IN cache' = [cache EXCEPT ![w].cached_weather_data =
                       [rows |-> new.rows \o kept, timestamp |-> new.timestamp]]
    /\ pc' = [pc EXCEPT ![w] = "set_insights"]
    /\ out' = NoOut
    /\ UNCHANGED <<procs, idx, weather_data, weather_df, insights,
                   chart_paths, stamp, pending, csvFile, chartFiles, clock>>

\* the four assignments that publish the snapshot
SetData(w) ==
    /\ pc[w] = "set_data"
    /\ cache' = [cache EXCEPT ![w].cached_weather_data = weather_df[w]]
    /\ pc' = [pc EXCEPT ![w] = "set_insights"]
    /\ out' = NoOut
    /\ UNCHANGED <<procs, idx, weather_data, weather_df, insights,
                   chart_paths, stamp, pending, csvFile, chartFiles, clock>>

\* (variant: `if cached_insights is None: cached_insights = insights`, the
\* insights of the first snapshot being kept)
SetInsights_KeepsFirst(w) ==
    /\ pc[w] = "set_insights"
    /\ cache' = [cache EXCEPT ![w].cached_insights =
                    IF @ = None THEN insights[w] ELSE @]
    /\ pc' = [pc EXCEPT ![w] = "set_charts"]
    /\ out' = NoOut
    /\ UNCHANGED <<procs, idx, weather_data, weather_df, insights,
                   chart_paths, stamp, pending, csvFile, chartFiles, clock>>

SetInsights(w) ==
    /\ pc[w] = "set_insights"
    /\ cache' = [cache EXCEPT ![w].cached_insights = insights[w]]
    /\ pc' = [pc EXCEPT ![w] = "set_charts"]
    /\ out' = NoOut
    /\ UNCHANGED <<procs, idx, weather_data, weather_df, insights,
                   chart_paths, stamp, pending, csvFile, chartFiles, clock>>

\* (variant: `if chart_paths: cached_charts = chart_paths`, an empty dict of
\* charts being left out of the cache)
SetCharts_SkipsEmpty(w) ==
    /\ pc[w] = "set_charts"
    /\ cache' = [cache EXCEPT ![w].cached_charts =
                    IF chart_paths[w].names = {} THEN @ ELSE chart_paths[w]]
    /\ pc' = [pc EXCEPT ![w] = "set_time"]
    /\ out' = NoOut
    /\ UNCHANGED <<procs, idx, weather_data, weather_df, insights,
                   chart_paths, stamp, pending, csvFile, chartFiles, clock>>

SetCharts(w) ==
    /\ pc[w] = "set_charts"
    /\ cache' = [cache EXCEPT ![w].cached_charts = chart_paths[w]]
    /\ pc' = [pc EXCEPT ![w] = "set_time"]
    /\ out' = NoOut
    /\ UNCHANGED <<procs, idx, weather_data, weather_df, insights,
                   chart_paths, stamp, pending, csvFile, chartFiles, clock>>

\* last_update_time = datetime.now(), the success log line, the return
SetTime(w) ==
    /\ pc[w] = "set_time"
    /\ cache' = [cache EXCEPT ![w].last_update_time = [now |-> stamp[w]]]
    /\ Leave(w, "Weather data updated successfully", None)
    /\ UNCHANGED <<procs, pending, csvFile, chartFiles, clock>>


\* ---- HTTP handlers --------------------------------------------------------

Response(w, route, status, body) ==
    [kind |-> "response", w |-> w, route |-> route, status |-> status,
     body |-> body]

\* last_update_time.isoformat() if last_update_time else None
IsoOrNone(c) == c.last_update_time

\* GET / : the loading page while cached_weather_data is None; otherwise the
\* dashboard, which subscripts cached_insights (a TypeError, hence a 500,
\* were it None; a KeyError, hence a 500, were it the empty dict)
homepage(w) ==
    LET c == cache[w] IN
    IF c.cached_weather_data = None
    THEN Response(w, "/", 200, [page |-> "loading"])
    ELSE IF c.cached_insights = None \/ c.cached_insights.empty
    THEN Response(w, "/", 500, [page |-> "Internal Server Error"])
    ELSE Response(w, "/", 200,
            [page |-> "dashboard",
             total_cities |-> c.cached_insights.total_cities,
             rows |-> c.cached_weather_data.rows,
             last_updated |-> IsoOrNone(c)])

\* (variant: the None check of get_weather_data forgotten, so that the
\* handler dies on cached_weather_data.to_dict)
get_weather_data_Unchecked(w) ==
    LET c == cache[w] IN
    IF c.cached_weather_data = None
    THEN Response(w, "/api/data", 500, [detail |-> "Internal Server Error"])
    ELSE Response(w, "/api/data", 200,
            [data |-> c.cached_weather_data,
             insights |-> c.cached_insights,
             last_updated |-> IsoOrNone(c),
             total_cities |-> Len(c.cached_weather_data.rows)])

\* GET /api/data
get_weather_data(w) ==
    LET c == cache[w] IN
    IF c.cached_weather_data = None
    THEN Response(w, "/api/data", 503, [detail |-> "Weather data not available"])
    ELSE Response(w, "/api/data", 200,
            [data |-> c.cached_weather_data,
             insights |-> c.cached_insights,
             last_updated |-> IsoOrNone(c),
             total_cities |-> Len(c.cached_weather_data.rows)])

\* GET /api/insights
get_insights(w) ==
    LET c == cache[w] IN
    IF c.cached_insights = None
    THEN Response(w, "/api/insights", 503,
            [detail |-> "Weather insights not available"])
    ELSE Response(w, "/api/insights", 200, c.cached_insights)

\* GET /charts/{chart_name}: the path comes from the cache, the image from
\* the file at that path
get_chart(w, name) ==
    LET c == cache[w] IN
    IF c.cached_charts = None
    THEN Response(w, "/charts", 404, [detail |-> "Chart not found"])
    ELSE IF name \notin c.cached_charts.names
    THEN Response(w, "/charts", 404, [detail |-> "Chart not found"])
    ELSE IF chartFiles[name] = None
    THEN Response(w, "/charts", 404, [detail |-> "Chart file not found"])
    ELSE Response(w, "/charts", 200, [name |-> name, file |-> chartFiles[name]])

\* GET /download/csv: the file at config.OUTPUT_CSV_FILE, whatever the cache
download_csv(w) ==
    IF csvFile = None
    THEN Response(w, "/download/csv", 404, [detail |-> "CSV file not found"])
    ELSE Response(w, "/download/csv", 200, [file |-> csvFile])

\* GET /health
health_check(w) ==
    Response(w, "/health", 200,
        [status |-> "healthy",
         data_available |-> cache[w].cached_weather_data # None,
         last_update |-> IsoOrNone(cache[w])])

\* a handler that only reads: it runs when the loop of its process is free
Serve(w, response) ==
    /\ w \in procs
    /\ LoopFree(w)
    /\ out' = response
    /\ UNCHANGED <<procs, pc, idx, weather_data, weather_df, insights,
                   chart_paths, stamp, pending, cache, csvFile, chartFiles,
                   clock>>

Homepage(w) == Serve(w, homepage(w))
GetWeatherData(w) == Serve(w, get_weather_data(w))
GetWeatherInsights(w) == Serve(w, get_insights(w))
GetChart(w) == \E name \in ChartSet : Serve(w, get_chart(w, name))
DownloadCsv(w) == Serve(w, download_csv(w))
HealthCheck(w) == Serve(w, health_check(w))

\* (variant: the handler awaits update_weather_data itself, the answer
\* leaving when the refresh is under way)
AddTask_Awaits(w, route, body) ==
    /\ w \in procs
    /\ LoopFree(w)
    /\ pending[w] < MaxPending
    /\ clock < MaxRefreshes
    /\ pc' = [pc EXCEPT ![w] = "fetch"]
    /\ idx' = [idx EXCEPT ![w] = 1]
    /\ weather_data' = [weather_data EXCEPT ![w] = <<>>]
    /\ clock' = clock + 1
    /\ stamp' = [stamp EXCEPT ![w] = clock + 1]
    /\ out' = Response(w, route, 200, body)
    /\ UNCHANGED <<procs, weather_df, insights, chart_paths, pending, cache,
                   csvFile, chartFiles>>

\* POST /update and GET /update: add the background task, acknowledge
AddTask(w, route, body) ==
    /\ w \in procs
    /\ LoopFree(w)
    /\ pending[w] < MaxPending
    /\ pending' = [pending EXCEPT ![w] = @ + 1]
    /\ out' = Response(w, route, 200, body)
    /\ UNCHANGED <<procs, pc, idx, weather_data, weather_df, insights,
                   chart_paths, stamp, cache, csvFile, chartFiles, clock>>

UpdateData(w) ==
    AddTask(w, "POST /update", [message |-> "Weather data update initiated"])

UpdateDataGet(w) ==
    AddTask(w, "GET /update", [page |-> "Updating Weather Data"])

\* ---- the system -----------------------------------------------------------

Refresh(w) ==
    \/ Startup(w)
    \/ RunBackgroundTask(w)
    \/ FetchCity(w)
    \/ ReturnNoData(w)
    \/ Analyse(w)
    \/ AnalyseFails(w)
    \/ GenerateCharts(w)
    \/ ExportCsv(w)
    \/ ExportCsvFails(w)
    \/ SetData(w)
    \/ SetInsights(w)
    \/ SetCharts(w)
    \/ SetTime(w)

Handle(w) ==
    \/ Homepage(w)
    \/ GetWeatherData(w)
    \/ GetWeatherInsights(w)
    \/ GetChart(w)
    \/ DownloadCsv(w)
    \/ HealthCheck(w)
    \/ UpdateData(w)
    \/ UpdateDataGet(w)

Next == \E w \in Workers : Refresh(w) \/ Handle(w)

Spec == Init /\ [][Next]_vars

\* A refresh is one coroutine that never yields: once started, its next
\* statement runs.  session.get waits at most timeout=10 for the server,
\* time.sleep(0.1) ends, and the frame, chart and file operations are
\* finite, so a step of a refresh under way is taken in the end.
RefreshStep(w) ==
    \/ FetchCity(w)
    \/ ReturnNoData(w)
    \/ Analyse(w)
    \/ AnalyseFails(w)
    \/ GenerateCharts(w)
    \/ ExportCsv(w)
    \/ ExportCsvFails(w)
    \/ SetData(w)
    \/ SetInsights(w)
    \/ SetCharts(w)
    \/ SetTime(w)

\* one uvicorn process as in Init, observed over its startup refresh and one
\* refresh more (the refreshes left are two)
InitLive ==
    /\ procs = {"w1"}
    /\ pc = [w \in Workers |-> "boot"]
    /\ idx = [w \in Workers |-> 0]
    /\ weather_data = [w \in Workers |-> <<>>]
    /\ weather_df = [w \in Workers |-> None]
    /\ insights = [w \in Workers |-> None]
    /\ chart_paths = [w \in Workers |-> None]
    /\ stamp = [w \in Workers |-> 0]
    /\ pending = [w \in Workers |-> 0]
    /\ cache = [w \in Workers |-> EmptyCache]
    /\ csvFile = None
    /\ chartFiles = [n \in ChartSet |-> None]
    /\ clock = MaxRefreshes - 2
    /\ out = NoOut

SpecLive ==
    InitLive /\ [][Next]_vars /\ \A w \in Workers : WF_vars(RefreshStep(w))

\* start_server.py: gunicorn worker processes, each importing app.py and
\* running its own startup_event (the refreshes left are two)
InitGunicorn ==
    /\ procs = Workers
    /\ pc = [w \in Workers |-> "boot"]
    /\ idx = [w \in Workers |-> 0]
    /\ weather_data = [w \in Workers |-> <<>>]
    /\ weather_df = [w \in Workers |-> None]
    /\ insights = [w \in Workers |-> None]
    /\ chart_paths = [w \in Workers |-> None]
    /\ stamp = [w \in Workers |-> 0]
    /\ pending = [w \in Workers |-> 0]
    /\ cache = [w \in Workers |-> EmptyCache]
    /\ csvFile = None
    /\ chartFiles = [n \in ChartSet |-> None]
    /\ clock = MaxRefreshes - 2
    /\ out = NoOut

SpecGunicorn == InitGunicorn /\ [][Next]_vars

\* ---- the pure functions on their own --------------------------------------
\* process_weather_data and get_weather_insights called on frames built by
\* hand, as test_data_processing and test_insights_generation do.

\* the readings of the sample frames: 30.0, 5.0 and 20.0 degrees or none;
\* wind and humidity, either of which may be missing
Temps == {None, Val(50), Val(200), Val(300)}

Gauges ==
    {[wind_speed_ms |-> Val(30), humidity |-> Val(40)],
     [wind_speed_ms |-> Val(10), humidity |-> None],
     [wind_speed_ms |-> None, humidity |-> Val(90)]}

Observation(i, t, g) ==
    [city |-> i, temperature_c |-> t, humidity |-> g.humidity,
     wind_speed_ms |-> g.wind_speed_ms]

\* every frame of at most MaxRows rows of these readings, city i in row i
SampleFrames ==
    UNION {{[i \in 1..n |-> Observation(i, t[i], g[i])] :
                t \in [1..n -> Temps], g \in [1..n -> Gauges]} :
           n \in 0..MaxRows}

\* the one-row frame of test_data_processing (20.0 degrees, 65 %, 5.0 m/s)
\* with its temperature, then its wind speed, swept over a range of tenths
SweepFrames ==
    {<<Observation(1, Val(t), [wind_speed_ms |-> Val(50), humidity |-> Val(65)])>> :
         t \in (0 - MaxTemp)..MaxTemp}
    \cup
    {<<Observation(1, Val(200), [wind_speed_ms |-> Val(ms), humidity |-> Val(65)])>> :
         ms \in 0..MaxWind}

InitPipeline ==
    /\ procs = {"w1"}
    /\ pc = [w \in Workers |-> IF w = "w1" THEN "frame" ELSE "boot"]
    /\ idx = [w \in Workers |-> 0]
    /\ \E frame \in SampleFrames \cup SweepFrames :
          weather_data = [w \in Workers |-> IF w = "w1" THEN frame ELSE <<>>]
    /\ weather_df = [w \in Workers |-> None]
    /\ insights = [w \in Workers |-> None]
    /\ chart_paths = [w \in Workers |-> None]
    /\ stamp = [w \in Workers |-> IF w = "w1" THEN 1 ELSE 0]
    /\ pending = [w \in Workers |-> 0]
    /\ cache = [w \in Workers |-> EmptyCache]
    /\ csvFile = None
    /\ chartFiles = [n \in ChartSet |-> None]
    /\ clock = 1
    /\ out = NoOut

\* processed_df = scraper.process_weather_data(sample_data)
ProcessFrame(w) ==
    /\ w \in procs
    /\ pc[w] = "frame"
    /\ \E df \in process_weather_data(weather_data[w]) :
         /\ weather_df' = [weather_df EXCEPT ![w] =
                IF df.raised THEN None
                ELSE [rows |-> df.value, timestamp |-> stamp[w]]]
         /\ pc' = [pc EXCEPT ![w] = IF df.raised THEN "raised" ELSE "processed"]
         /\ out' = [kind |-> "processed", w |-> w, frame |-> weather_data[w],
                    result |-> df]
    /\ UNCHANGED <<procs, idx, weather_data, insights, chart_paths, stamp,
                   pending, cache, csvFile, chartFiles, clock>>

\* insights = scraper.get_weather_insights(processed_df)
Summarise(w) ==
    /\ w \in procs
    /\ pc[w] = "processed"
    /\ \E summary \in get_weather_insights(weather_df[w].rows, stamp[w]) :
         /\ insights' = [insights EXCEPT ![w] =
                IF summary.raised THEN None ELSE summary.value]
         /\ pc' = [pc EXCEPT ![w] =
                IF summary.raised THEN "raised" ELSE "summarised"]
         /\ out' = [kind |-> "insights", w |-> w, df |-> weather_df[w].rows,
                    result |-> summary]
    /\ UNCHANGED <<procs, idx, weather_data, weather_df, chart_paths, stamp,
                   pending, cache, csvFile, chartFiles, clock>>

\* ---- the CSV export and its reading back ---------------------------------
\* A text is a sequence of characters, a CSV file a sequence of lines, a
\* line a sequence of fields.

DigitChar == <<"0", "1", "2", "3", "4", "5", "6", "7", "8", "9">>

\* the decimal digits of a natural number
RECURSIVE Digits(_)
Digits(n) ==
    IF n < 10 THEN <<DigitChar[n + 1]>>
    ELSE Digits(n \div 10) \o <<DigitChar[(n % 10) + 1]>>

\* the natural number a text of digits reads as
RECURSIVE ParseDigits(_)
ParseDigits(t) ==
    IF t = <<>> THEN 0
    ELSE 10 * ParseDigits(SubSeq(t, 1, Len(t) - 1))
         + (CHOOSE d \in 0..9 : DigitChar[d + 1] = t[Len(t)])

Signed(k, t) == IF k < 0 THEN <<"-">> \o t ELSE t
Magnitude(k) == IF k < 0 THEN 0 - k ELSE k

\* (variant: to_csv called with float_format='%.0f')
FormatFloat_NoDecimals(k) == Signed(k, Digits(round(Magnitude(k), 10)))

\* to_csv of a float of k tenths: its repr, the shortest text that reads
\* back as the same float (a float rounded to one decimal has one decimal)
FormatFloat(k) ==
    Signed(k, Digits(Magnitude(k) \div 10) \o <<".">>
                 \o Digits(Magnitude(k) % 10))

\* to_csv of an integer
FormatInt(n) == Signed(n, Digits(Magnitude(n)))

\* the name of city i, a text that is neither a number nor a missing-value
\* token of read_csv (config.CITIES: "New York", "Tokyo", ...)
CityName(i) == <<"c", "i", "t", "y", " ">> \o Digits(i)

\* column_order, for the columns the rows of the model have
column_order ==
    <<"city", "temperature_c", "temperature_f", "humidity", "wind_speed_ms",
      "wind_speed_mph">>

\* the dtype pd.DataFrame gives a column: int64 when every value is an
\* integer, float64 (None being NaN) otherwise, object when all are None
Dtype(rows, f) ==
    IF f = "city" THEN "str"
    ELSE IF Present(rows, f) = {} THEN "object"
    ELSE IF f = "humidity" /\ Present(rows, f) = 1..Len(rows) THEN "int64"
    ELSE "float64"

\* one field of the file: a missing value is written as the empty text
FormatCell(rows, i, f) ==
    LET v == rows[i][f]
    IN IF f = "city" THEN CityName(v)
       ELSE IF v = None THEN <<>>
       ELSE IF Dtype(rows, f) = "int64" THEN FormatInt(v.val)
       ELSE IF f = "humidity" THEN FormatFloat(10 * v.val)
       ELSE FormatFloat(v.val)

\* weather_df.to_csv(path, index=False): the header, then a line per row
to_csv(rows) ==
    LET header == [c \in 1..Len(column_order) |-> <<column_order[c]>>]
        line(i) == [c \in 1..Len(column_order) |->
                       FormatCell(rows, i, column_order[c])]
    IN <<header>> \o [i \in 1..Len(rows) |-> line(i)]

\* the position of the decimal point of a text, 0 when it has none
PointAt(t) ==
    IF \E k \in 1..Len(t) : t[k] = "."
    THEN CHOOSE k \in 1..Len(t) : t[k] = "." ELSE 0

\* read_csv of one numeric field, in tenths: the empty field is NaN, a
\* text of digits an integer, a text with a point a float
ParseCell(t) ==
    IF t = <<>> THEN None
    ELSE LET neg == t[1] = "-"
             u == IF neg THEN SubSeq(t, 2, Len(t)) ELSE t
             p == PointAt(u)
             m == IF p = 0 THEN 10 * ParseDigits(u)
                  ELSE 10 * ParseDigits(SubSeq(u, 1, p - 1))
                       + ParseDigits(SubSeq(u, p + 1, Len(u)))
         IN Val(IF neg THEN 0 - m ELSE m)

\* pd.read_csv(path): the header names the columns, every other line is a
\* row; the numbers are in tenths
read_csv(text) ==
    [i \in 1..(Len(text) - 1) |->
        [f \in {column_order[c] : c \in 1..Len(column_order)} |->
            LET c == CHOOSE c \in 1..Len(column_order) : column_order[c] = f
                cell == text[i + 1][c]
            IN IF f = "city" THEN cell ELSE ParseCell(cell)]]

\* sample_df.to_csv(csv_path, index=False); read_df = pd.read_csv(csv_path),
\* for a frame with rows (update_weather_data exports no other)
ExportAndReadBack(w) ==
    /\ w \in procs
    /\ pc[w] = "processed"
    /\ weather_df[w].rows # <<>>
    /\ LET text == to_csv(weather_df[w].rows)
       IN out' = [kind |-> "read_back", w |-> w, df |-> weather_df[w].rows,
                  text |-> text, read_df |-> read_csv(text)]
    /\ pc' = [pc EXCEPT ![w] = "read_back"]
    /\ UNCHANGED <<procs, idx, weather_data, weather_df, insights, chart_paths,
                   stamp, pending, cache, csvFile, chartFiles, clock>>

NextPipeline ==
    \E w \in Workers : ProcessFrame(w) \/ Summarise(w) \/ ExportAndReadBack(w)

SpecPipeline == InitPipeline /\ [][NextPipeline]_vars


\* ==== the claims =============================================================

\* the snapshot a process holds is published when its last assignment, that
\* of last_update_time, has happened
Published(w) == cache[w].last_update_time # None

\* the four globals are those of one refresh, or all None
Coherent(c) ==
    \/ c = EmptyCache
    \/ /\ c.cached_weather_data # None
       /\ c.cached_insights # None
       /\ c.cached_charts # None
       /\ c.last_update_time # None
       /\ c.cached_insights.data_collection_time = c.cached_weather_data.timestamp
       /\ c.cached_charts.refresh = c.cached_weather_data.timestamp
       /\ c.last_update_time.now = c.cached_weather_data.timestamp

\* C1: whenever a handler of a process can run, the four cache globals of
\* that process come from one refresh, and every 200 answer of GET /api/data
\* pairs the observations with the insights and the last_updated of the
\* refresh that produced the observations.
C1_NoTornRead ==
    /\ \A w \in procs : LoopFree(w) => Coherent(cache[w])
    /\ (out.kind = "response" /\ out.route = "/api/data" /\ out.status = 200)
          => /\ out.body.insights # None
             /\ out.body.last_updated # None
             /\ out.body.insights.data_collection_time = out.body.data.timestamp
             /\ out.body.last_updated.now = out.body.data.timestamp
             /\ out.body.total_cities = out.body.insights.total_cities

\* C1 witness: GET /api/data answered from the snapshot of a later refresh
\* than the first, right after that refresh exported and published it
C1_Witness ==
    /\ out.kind = "response" /\ out.route = "/api/data" /\ out.status = 200
    /\ out.body.data.timestamp >= 2
    /\ csvFile = out.body.data

C3_OneRefreshAtATime ==
    Cardinality({w \in procs : InFlight(w)}) <= 1


\* C4: while a refresh is in flight in a process that holds a published
\* snapshot, the read handlers of that process can be served.
C4_ReadsNeverBlock ==
    \A w \in procs :
        (InFlight(w) /\ Published(w))
            => (ENABLED GetWeatherData(w)) /\ (ENABLED HealthCheck(w))

\* C5: a handler that answers while its process has published no snapshot
\* never answers 500; GET / answers the loading page, GET /api/data and
\* GET /api/insights answer 503, GET /health answers data_available = false.
C5_NotAvailable ==
    (out.kind = "response" /\ ~Published(out.w))
        => /\ out.status # 500
           /\ out.route = "/" => out.status = 200 /\ out.body.page = "loading"
           /\ out.route = "/api/data" => out.status = 503
           /\ out.route = "/api/insights" => out.status = 503
           /\ out.route = "/health" => out.body.data_available = FALSE

\* C5 witness: GET /api/data answers 503 after two refreshes have run and
\* neither has published
C5_Witness ==
    /\ out.kind = "response" /\ out.route = "/api/data" /\ out.status = 503
    /\ clock >= 2
    /\ ~Published(out.w)

\* the snapshot of refresh r is the one process w holds
HoldsSnapshotOf(w, r) ==
    /\ cache[w].cached_weather_data # None
    /\ cache[w].cached_weather_data.timestamp = r
    /\ cache[w].last_update_time = [now |-> r]

\* C6: a refresh that computed its observations and insights and whose CSV
\* export failed has published its snapshot when it returns.
C6_CsvFailureStillPublishes ==
    (out.kind = "returned" /\ out.error = [raised_by |-> "to_csv"])
        => HoldsSnapshotOf(out.w, out.refresh)

\* C7: a refresh that computed its observations and insights and in which
\* the rendering of a chart failed has published its snapshot when it
\* returns.
C7_ChartFailureStillPublishes ==
    (out.kind = "returned" /\ out.rendered # None
        /\ out.rendered.names # ChartSet)
        => HoldsSnapshotOf(out.w, out.refresh)

\* C8: a refresh in which some city was fetched and some city was not has,
\* when it returns, published a snapshot whose observations are exactly the
\* cities fetched.
C8_PartialFetchPublishes ==
    (out.kind = "returned" /\ out.fetched # {} /\ out.fetched # Cities)
        => /\ HoldsSnapshotOf(out.w, out.refresh)
           /\ LET rows == cache[out.w].cached_weather_data.rows IN
                /\ {rows[i].city : i \in 1..Len(rows)} = out.fetched
                /\ Len(rows) = Cardinality(out.fetched)

\* C9: after a refresh that did not publish, in a process that holds a
\* published snapshot, GET /api/data, GET /api/insights, GET /charts/{name}
\* and GET /download/csv return the content of that snapshot: its rows and
\* insights, the images rendered for it, the table exported for it.
C9_FailedRefreshUnobservable ==
    (out.kind = "returned" /\ out.log # "Weather data updated successfully"
        /\ Published(out.w))
        => LET w == out.w
               c == cache[w]
               r == c.last_update_time.now
           IN /\ get_weather_data(w).body.data.timestamp = r
              /\ get_insights(w).body.data_collection_time = r
              /\ \A n \in c.cached_charts.names :
                    get_chart(w, n).body = [name |-> n, file |-> [png |-> r]]
              /\ download_csv(w).body = [file |-> c.cached_weather_data]

\* C10: when a refresh returns successfully, the cache of its process holds
\* exactly what that refresh computed: the processed rows of the cities it
\* fetched and of no other city, the insights of those rows, the chart
\* mapping it rendered, and its time.
C10_FullReplacement ==
    (out.kind = "returned" /\ out.log = "Weather data updated successfully")
        => LET c == cache[out.w]
               rows == c.cached_weather_data.rows
           IN /\ c.cached_weather_data.timestamp = out.refresh
              /\ {rows[i].city : i \in 1..Len(rows)} = out.fetched
              /\ Len(rows) = Cardinality(out.fetched)
              /\ Return(c.cached_insights)
                    \in get_weather_insights(rows, out.refresh)
              /\ c.cached_charts = out.rendered
              /\ c.last_update_time = [now |-> out.refresh]

\* C10 witness: a replacement under way in which a city is dropped: the
\* process holds a published snapshot of every city (its insights are still
\* in place) and the rows just assigned have fewer cities
C10_Witness ==
    \E w \in procs :
        /\ pc[w] = "set_insights"
        /\ Published(w)
        /\ cache[w].cached_insights.total_cities = NumCities
        /\ cache[w].cached_weather_data = weather_df[w]
        /\ Len(weather_df[w].rows) < NumCities

\* C11: when POST /update or GET /update has answered, the answer is the
\* fixed 200 acknowledgment of its route, the refresh it asked for is still
\* a task waiting on the loop of that process and update_weather_data has
\* not started: nothing of the answer comes from the refresh or from its
\* outcome.
C11_AckBeforeRefresh ==
    (out.kind = "response" /\ out.route \in {"POST /update", "GET /update"})
        => /\ out.status = 200
           /\ out.body = IF out.route = "POST /update"
                         THEN [message |-> "Weather data update initiated"]
                         ELSE [page |-> "Updating Weather Data"]
           /\ pending[out.w] >= 1
           /\ ~InFlight(out.w)
           /\ stamp[out.w] = 0

\* C11 witness: an update acknowledged in a process that has published
\* nothing, its startup refresh having failed
C11_Witness ==
    /\ out.kind = "response" /\ out.route = "POST /update"
    /\ pending[out.w] = 1
    /\ ~Published(out.w)

\* C12: in the snapshot a process has published, the humidity of every
\* observation is absent or within 0..100.
C12_HumidityInRange ==
    \A w \in procs :
        Published(w)
            => LET rows == cache[w].cached_weather_data.rows
               IN \A i \in 1..Len(rows) :
                      \/ rows[i].humidity = None
                      \/ rows[i].humidity.val \in 0..100

\* C13: the loop of scrape_all_cities visits the cities in order and keeps
\* at most one dict of each city visited, a city that failed being passed;
\* the list it builds, the frame it returns and the rows a process has
\* cached are never more than the cities of the registry.
C13_EachCityOnce ==
    \A w \in procs :
        LET fetched == {weather_data[w][i].city : i \in 1..Len(weather_data[w])}
        IN /\ pc[w] = "fetch" => fetched \subseteq 1..(idx[w] - 1)
           /\ Cardinality(fetched) = Len(weather_data[w])
           /\ Len(weather_data[w]) <= NumCities
           /\ weather_df[w] # None => Len(weather_df[w].rows) <= NumCities
           /\ cache[w].cached_weather_data # None
                 => Len(cache[w].cached_weather_data.rows) <= NumCities

\* C13 witness: the loop has ended with the last city fetched and an
\* earlier city dropped
C13_Witness ==
    \E w \in procs :
        /\ pc[w] = "fetch"
        /\ idx[w] = NumCities + 1
        /\ weather_data[w] # <<>>
        /\ Len(weather_data[w]) < NumCities
        /\ weather_data[w][Len(weather_data[w])].city = NumCities

\* C14: the frame process_weather_data returns is sorted by temperature_c
\* descending, and rows of equal temperature_c stand in their input order
\* (city i is row i of the input).
C14_SortedStable ==
    (out.kind = "processed" /\ ~out.result.raised)
        => LET df == out.result.value
           IN \A i, j \in Present(df, "temperature_c") :
                  i < j => /\ df[i].temperature_c.val >= df[j].temperature_c.val
                           /\ df[i].temperature_c.val = df[j].temperature_c.val
                                 => df[i].city < df[j].city

\* C15: process_weather_data returns a frame whose rows are exactly the
\* input rows that hold both a temperature_c and a wind_speed_ms, the
\* humidity of each, absent or not, being that of its input row.
C15_DropsIncomplete ==
    out.kind = "processed"
        => /\ ~out.result.raised
           /\ LET frame == out.frame
                  df == out.result.value
                  complete == Present(frame, "temperature_c")
                                 \cap Present(frame, "wind_speed_ms")
              IN /\ {df[k].city : k \in 1..Len(df)}
                       = {frame[i].city : i \in complete}
                 /\ \A k \in 1..Len(df) :
                        df[k].humidity = frame[df[k].city].humidity

\* x is num/den rounded to the nearest integer, to the even one at a tie
RoundsHalfEven(x, num, den) ==
    LET e == IF den * x >= num THEN den * x - num ELSE num - den * x
    IN /\ 2 * e <= den
       /\ 2 * e = den => x % 2 = 0

\* C16: in the frame process_weather_data returns, a row whose observation
\* holds temperature_c = c and wind_speed_ms = ms, in tenths, has
\* temperature_c = c, wind_speed_ms = ms, temperature_f = c * 9/5 + 32 and
\* wind_speed_mph = ms * 2.237 rounded to the nearest tenth, the even one at
\* a tie; 20.0 C gives 68.0 F and 5.0 m/s gives 11.2 mph.
C16_ConversionsRounded ==
    (out.kind = "processed" /\ ~out.result.raised)
        => \A k \in 1..Len(out.result.value) :
               LET r == out.result.value[k]
                   c == out.frame[r.city].temperature_c
                   ms == out.frame[r.city].wind_speed_ms
               IN (c # None /\ ms # None)
                     => /\ r.temperature_c = c
                        /\ r.wind_speed_ms = ms
                        /\ RoundsHalfEven(r.temperature_f.val, 9 * c.val + 1600, 5)
                        /\ RoundsHalfEven(r.wind_speed_mph.val, 2237 * ms.val, 1000)
                        /\ c.val = 200 => r.temperature_f.val = 680
                        /\ ms.val = 50 => r.wind_speed_mph.val = 112

\* C16 witness: the frame of 20.0 C and 50.0 m/s processed, whose 111.85 mph
\* lies halfway between two tenths
C16_Witness ==
    /\ out.kind = "processed" /\ ~out.result.raised
    /\ Len(out.result.value) = 1
    /\ out.frame[1].wind_speed_ms = Val(500)
    /\ out.result.value[1].wind_speed_mph = Val(1118)
    /\ out.result.value[1].temperature_f = Val(680)

\* get_weather_insights has returned the insights of a non-empty frame
Summarised ==
    /\ out.kind = "insights"
    /\ ~out.result.raised
    /\ out.df # <<>>

\* C17 (original): hottest_city is the city of the first row of the frame
\* and coldest_city the city of its last row, ties included.
C17_FirstAndLast ==
    Summarised
        => /\ out.result.value.hottest_city = out.df[1].city
           /\ out.result.value.coldest_city = out.df[Len(out.df)].city

\* C17 (amended): hottest_city is the city of the first row of the frame,
\* and coldest_city the city of the first row, in the order of the frame,
\* among the rows that hold the lowest temperature_c: the row that opens the
\* last run of equal temperatures, the rows without temperature_c, which
\* the sort puts last, set aside.
C17_FirstOccurrence ==
    Summarised
        => LET df == out.df
               last == Cardinality(Present(df, "temperature_c"))
           IN /\ Present(df, "temperature_c") = 1..last
              /\ out.result.value.hottest_city = df[1].city
              /\ \E k \in 1..last :
                    /\ out.result.value.coldest_city = df[k].city
                    /\ df[k].temperature_c = df[last].temperature_c
                    /\ k > 1 => df[k - 1].temperature_c # df[k].temperature_c

\* C17 witness: insights of a frame of three rows whose last two tie for
\* the lowest temperature: coldest_city is not the city of the last row
C17_Witness ==
    /\ Summarised
    /\ Len(out.df) = 3
    /\ out.df[1].temperature_c # out.df[2].temperature_c
    /\ out.df[2].temperature_c = out.df[3].temperature_c
    /\ out.df[3].temperature_c # None
    /\ out.result.value.coldest_city = out.df[2].city

\* C18: get_weather_insights called on a non-empty frame returns; when
\* some row holds a humidity, most_humid_city and least_humid_city are
\* cities of rows holding the largest and the smallest humidity among the
\* rows that hold one; when no row holds a humidity, both are None.
C18_HumidityExtrema ==
    (out.kind = "insights" /\ out.df # <<>>)
        => /\ ~out.result.raised
           /\ LET df == out.df
                  P == Present(df, "humidity")
                  v == out.result.value
              IN IF P = {}
                 THEN v.most_humid_city = None /\ v.least_humid_city = None
                 ELSE \E i, j \in P :
                        /\ v.most_humid_city = df[i].city
                        /\ v.least_humid_city = df[j].city
                        /\ \A k \in P :
                              /\ df[k].humidity.val <= df[i].humidity.val
                              /\ df[k].humidity.val >= df[j].humidity.val

\* C19: get_weather_insights called on an empty frame returns the empty
\* dict; it does not raise.
C19_EmptyInsights ==
    (out.kind = "insights" /\ out.df = <<>>)
        => /\ ~out.result.raised
           /\ out.result.value = [empty |-> TRUE]

\* C19 witness: the empty frame, which process_weather_data hands back as
\* it is, summarised
C19_Witness ==
    /\ out.kind = "insights"
    /\ out.df = <<>>
    /\ weather_data[out.w] = <<>>
    /\ pc[out.w] = "summarised"

\* a is the fraction num/den rounded to a nearest integer
IsNearest(a, num, den) ==
    LET e == IF den * a >= num THEN den * a - num ELSE num - den * a
    IN 2 * e <= den

\* C20: each average get_weather_insights returns is, in tenths, a tenth
\* nearest to the sum of its column over the rows that hold a number in
\* it, divided by the count of those rows (a row without humidity is left
\* out of avg_humidity); temperatures 30.0, 20.0 and 5.0 give 18.3.
C20_AveragesOverPresent ==
    Summarised
        => LET df == out.df
               v == out.result.value
               Sum(f) == Total(df, f, Present(df, f))
               Count(f) == Cardinality(Present(df, f))
           IN /\ IsNearest(v.avg_temperature_c,
                           Sum("temperature_c"), Count("temperature_c"))
              /\ IsNearest(v.avg_temperature_f,
                           Sum("temperature_f"), Count("temperature_f"))
              /\ IsNearest(v.avg_humidity, 10 * Sum("humidity"), Count("humidity"))
              /\ IsNearest(v.avg_wind_speed_mph,
                           Sum("wind_speed_mph"), Count("wind_speed_mph"))
              /\ (Len(df) = 3 /\ df[1].temperature_c = Val(300)
                    /\ df[2].temperature_c = Val(200)
                    /\ df[3].temperature_c = Val(50))
                   => v.avg_temperature_c = 183

\* C20 witness: the insights of 30.0, 20.0 and 5.0 degrees, one of the
\* three rows without humidity and the two others at 40 % and 90 %
C20_Witness ==
    /\ Summarised
    /\ Len(out.df) = 3
    /\ out.result.value.avg_temperature_c = 183
    /\ Cardinality(Present(out.df, "humidity")) = 2
    /\ out.result.value.avg_humidity = 650

\* C21: a call of fetch_weather_data by the loop of scrape_all_cities
\* returns; when the request timed out, could not connect, was answered
\* with an error status or with a body that is not the JSON object
\* expected, it returns None, the city is not in the list, and the refresh
\* goes on with the next city.
C21_FetchNeverRaises ==
    /\ out.kind = "returned" =>
          (out.error = None \/ out.error.raised_by # "fetch_weather_data")
    /\ out.kind = "fetched" =>
          /\ ~out.weather.raised
          /\ pc[out.w] = "fetch"
          /\ idx[out.w] = out.city + 1
          /\ out.status \in Failures =>
                /\ out.weather.value = None
                /\ \A i \in 1..Len(weather_data[out.w]) :
                      weather_data[out.w][i].city # out.city

\* C21 witness: the last city answered a body of the wrong shape after an
\* earlier city was fetched: the list holds the earlier city only
C21_Witness ==
    /\ out.kind = "fetched"
    /\ out.status = "bad_shape"
    /\ out.city = NumCities
    /\ Len(weather_data[out.w]) = NumCities - 1

\* C22: one snapshot is live for the whole application: when a process
\* that is free to serve has published a snapshot, GET /api/data answered
\* at that moment by any process free to serve returns 200 with that same
\* snapshot (were it an older or a newer one, one of the two processes
\* would be serving a snapshot older than one already published).
C22_OneLiveSnapshot ==
    \A v, w \in procs :
        (LoopFree(v) /\ LoopFree(w) /\ Published(v))
            => /\ get_weather_data(w).status = 200
               /\ get_weather_data(w).body.data = cache[v].cached_weather_data

\* the number of tenths a value of the frame stands for (humidity is kept
\* in percent)
Tenths(f, v) == IF v = None THEN None
                ELSE IF f = "humidity" THEN Val(10 * v.val) ELSE v

C24_PublishBeforeExport ==
    \A w \in procs :
        /\ pc[w] = "charts"
              => /\ idx[w] > NumCities
                 /\ weather_df[w] # None
                 /\ insights[w] # None
        /\ pc[w] = "export"
              => /\ chart_paths[w] # None
                 /\ HoldsSnapshotOf(w, stamp[w])

\* C25: the mapping generate_all_visualizations returns lacks at most the
\* one chart whose rendering failed: it has an entry for every chart, or
\* for every chart but one.
C25_OnlyFailedChartOmitted ==
    \A w \in procs :
        chart_paths[w] # None
            => Cardinality(chart_paths[w].names) >= Len(ChartNames) - 1

\* C26: a refresh that has started returns: whatever the replies, timeouts
\* and errors included, the loop passes every city of the registry once
\* and the steps that follow end.
C26_RefreshTerminates ==
    \A w \in Workers : InFlight(w) ~> ~InFlight(w)

\* C26 witness: a refresh has returned in which a request timed out on the
\* last city and another city was fetched
C26_Witness ==
    /\ out.kind = "returned"
    /\ out.fetched # {}
    /\ NumCities \notin out.fetched
    /\ out.log = "Weather data updated successfully"

\* the cache globals of a process that are None
Absent(w) ==
    {f \in {"cached_weather_data", "cached_insights", "cached_charts",
             "last_update_time"} : cache[w][f] = None}

\* C27: whenever a handler of a process can run, and when a refresh has
\* just returned, the four cache globals of the process are all None or
\* none of them is None.
C27_AllOrNone ==
    /\ \A w \in procs : LoopFree(w) => Cardinality(Absent(w)) \in {0, 4}
    /\ out.kind = "returned" => Cardinality(Absent(out.w)) \in {0, 4}

\* C27 witness: GET /health answers from a cache with the four globals set
\* by a refresh that rendered no chart, after a refresh that set none
C27_Witness ==
    /\ out.kind = "response" /\ out.route = "/health"
    /\ Absent(out.w) = {}
    /\ cache[out.w].cached_charts.names = {}
    /\ cache[out.w].last_update_time.now >= 2
    /\ csvFile = cache[out.w].cached_weather_data

\* C28: the snapshot a handler can observe has at least one observation
\* and insights that are not the empty dict, whose total_cities is the
\* number of its observations; GET /api/data answers a total_cities equal
\* to insights.total_cities, and GET / never answers 500: its dashboard
\* shows the total_cities of the insights, the number of rows it lists.
C28_SnapshotNotEmpty ==
    /\ \A w \in procs :
          (LoopFree(w) /\ Published(w))
             => /\ cache[w].cached_weather_data.rows # <<>>
                /\ cache[w].cached_insights # EmptyInsights
                /\ ~cache[w].cached_insights.empty
                /\ cache[w].cached_insights.total_cities
                      = Len(cache[w].cached_weather_data.rows)
    /\ (out.kind = "response" /\ out.route = "/api/data" /\ out.status = 200)
          => /\ out.body.total_cities = Len(out.body.data.rows)
             /\ out.body.total_cities = out.body.insights.total_cities
    /\ (out.kind = "response" /\ out.route = "/")
          => /\ out.status = 200
             /\ out.body.page = "dashboard"
                   => /\ out.body.total_cities >= 1
                      /\ out.body.total_cities = Len(out.body.rows)

\* C28 witness: the dashboard shows one city, the last of the registry, in
\* the snapshot of the third refresh, for which no other city was fetched
C28_Witness ==
    /\ out.kind = "response" /\ out.route = "/"
    /\ out.body.page = "dashboard"
    /\ out.body.total_cities = 1
    /\ out.body.rows[1].city = NumCities
    /\ out.body.last_updated.now = 3

\* C29: a process that has not run its startup refresh to the end answers
\* no request: no handler can run while it boots or while its first
\* refresh is under way, and every answer comes from a process whose loop
\* is free after a refresh has been started.  When the startup refresh has
\* returned without publishing, the four cache globals are None and the
\* handlers can run.
C29_ServesAfterStartup ==
    /\ \A w \in procs :
          (pc[w] = "boot" \/ (InFlight(w) /\ stamp[w] = 1))
             => ~ENABLED Handle(w)
    /\ out.kind = "response" => (pc[out.w] = "idle" /\ clock >= 1)
    /\ (out.kind = "returned" /\ out.refresh = 1
           /\ out.log # "Weather data updated successfully")
          => /\ cache[out.w] = EmptyCache
             /\ ENABLED Homepage(out.w)
             /\ ENABLED GetWeatherData(out.w)
             /\ ENABLED HealthCheck(out.w)

\* C29 witness: GET /health answers data_available = false after the
\* startup refresh, the only refresh started, failed
C29_Witness ==
    /\ out.kind = "response" /\ out.route = "/health"
    /\ out.body.data_available = FALSE
    /\ clock = 1
    /\ cache[out.w] = EmptyCache

====
